---- MODULE Spec2Model ----
(***************************************************************************)
(* Model of the session supervisor of painel-lt-wwebjs-api                 *)
(* (src/src/sessions.js, src/server.js).                                   *)
(*                                                                         *)
(* One Node.js event loop runs every operation: the code between two       *)
(* awaits of an async function is one atomic step, and the steps of the    *)
(* operations in flight interleave freely.  A worker is a Client with its  *)
(* Chrome process; its process id doubles as the worker's name.            *)
(***************************************************************************)
EXTENDS Integers, FiniteSets, Sequences, TLC

\* ------------------------------------------------------------------------
\* Program constants (sessions.js:13-15)
MAX_RESTART_ATTEMPTS == 3
RESTART_COOLDOWN_MS == 30000
RESTART_RESET_MS == 120000

\* Bounds of the model
\* session ids
Keys == {1, 2}
\* the session ids the whole supervisor is asked to start; the other key
\* is known only by the work directory a previous run left behind
StartKeys == {1}
\* the clock of the restart policy runs 0 .. PolicyHorizon ticks of 10 s
PolicyHorizon == 14
\* clients created in one run; a client's Chrome gets the client's number
\* as its process id
MaxWorkers == 2
Workers == 1 .. MaxWorkers
\* setupSession calls counted per key when setup is studied on its own
MaxCalls == 3
\* requests from outside (setupSession that starts, destroySession,
\* deleteSession, reloadSession of a registered key, flushSessions) and
\* page events in one run of the whole supervisor
MaxOps == 3
\* the same when teardown and crash recovery are studied on their own
MaxRecoveryOps == 4
\* iterations of the liveness poll of a teardown (sessions.js:661, 709)
PollTicks == 10

\* process id of the Chrome a previous run of the supervisor left behind
\* in the work directory of key k
OrphanPid(k) == 100 + k
Events == {"close", "error"}

\* Date.now() of a clock value counted in ticks of 10 seconds
Millis(t) == t * 10000

VARIABLES
    sessions,          \* Map sessionId -> client (sessions.js:4)
    pendingSessions,   \* Set of sessionIds being initialised (sessions.js:5)
    sessionLocks,      \* the sessionIds whose lock is set (sessions.js:6)
    restartAttempts,   \* Map sessionId -> {count, firstAttempt, lastAttempt}
    now,               \* Date.now(), in ticks of 10 s
    releaseBrowserLock, \* config flag (sessions.js:8, 275)
    wk,                \* the clients: key, Chrome process, listeners, setup
    lockArt,           \* SingletonLock of each work directory: 0 none,
                       \* -1 no pid readable, else the pid it encodes
    dir,               \* the keys whose work directory exists
    orphans,           \* live Chrome processes left by a previous run
    td,                \* destroySession / deleteSession in flight, per key
    rl,                \* reloadSession in flight, per key
    rec,               \* safeRestartSession per client and page event
    fl,                \* flushSessions in flight
    used,              \* requests and page events so far
    victims,           \* log: kills the lock-file reaper sent to the worker
                       \* of a registry entry: pid, key torn down, key of
                       \* the worker, who asked, worker ACTIVE or PENDING
    probe,             \* validateSession in flight (sessions.js:109-159)
    sd,                \* gracefulShutdown of the process (server.js:29-86)
    outside,           \* the keys whose work directory resolves to a path
                       \* outside the sessions folder (a symbolic link)
    obs,               \* observer of the restart policy (history only)
    stat               \* observer: calls made and how they ended, per key

registry == <<sessions, pendingSessions, sessionLocks, restartAttempts>>
disk == <<lockArt, dir, orphans>>
ops == <<td, rl, rec, fl>>
\* what the operations of sessions.js never write: the probe and the
\* shutdown in flight, where the work directories resolve to, and the
\* observers
ghosts == <<probe, sd, outside, obs, stat>>
supervisor == <<releaseBrowserLock, wk, disk, ops, used, victims>>
vars == <<registry, now, supervisor, ghosts>>

\* ------------------------------------------------------------------------
\* Maps as functions on the set of keys they hold
EmptyMap == [x \in {} |-> 0]
MapHas(m, k) == k \in DOMAIN m
MapSet(m, k, v) == [x \in (DOMAIN m) \cup {k} |-> IF x = k THEN v ELSE m[x]]
MapDelete(m, k) == [x \in (DOMAIN m) \ {k} |-> m[x]]

\* ------------------------------------------------------------------------
\* canRestart (sessions.js:28-50): the decision and the record it leaves.
\* m is restartAttempts, t is Date.now() in milliseconds.
FreshAttempts(t) == [count |-> 1, firstAttempt |-> t, lastAttempt |-> t]

\* mutants of canRestart
canRestartCeilingOffByOne(m, k, t) ==
    IF ~MapHas(m, k) THEN [ok |-> TRUE, m |-> MapSet(m, k, FreshAttempts(t))]
    ELSE IF t - m[k].firstAttempt > RESTART_RESET_MS
         THEN [ok |-> TRUE, m |-> MapSet(m, k, FreshAttempts(t))]
    ELSE IF m[k].count > MAX_RESTART_ATTEMPTS THEN [ok |-> FALSE, m |-> m]
    ELSE IF t - m[k].lastAttempt < RESTART_COOLDOWN_MS THEN [ok |-> FALSE, m |-> m]
    ELSE [ok |-> TRUE,
          m |-> [m EXCEPT ![k].count = @ + 1, ![k].lastAttempt = t]]

canRestartCooldownInclusive(m, k, t) ==
    IF ~MapHas(m, k) THEN [ok |-> TRUE, m |-> MapSet(m, k, FreshAttempts(t))]
    ELSE IF t - m[k].firstAttempt > RESTART_RESET_MS
         THEN [ok |-> TRUE, m |-> MapSet(m, k, FreshAttempts(t))]
    ELSE IF m[k].count >= MAX_RESTART_ATTEMPTS THEN [ok |-> FALSE, m |-> m]
    ELSE IF t - m[k].lastAttempt <= RESTART_COOLDOWN_MS THEN [ok |-> FALSE, m |-> m]
    ELSE [ok |-> TRUE,
          m |-> [m EXCEPT ![k].count = @ + 1, ![k].lastAttempt = t]]

\* canRestart with a denial by cooldown that stamps the attempt
canRestartStampsDenied(m, k, t) ==
    IF ~MapHas(m, k) THEN [ok |-> TRUE, m |-> MapSet(m, k, FreshAttempts(t))]
    ELSE IF t - m[k].firstAttempt > RESTART_RESET_MS
         THEN [ok |-> TRUE, m |-> MapSet(m, k, FreshAttempts(t))]
    ELSE IF m[k].count >= MAX_RESTART_ATTEMPTS THEN [ok |-> FALSE, m |-> m]
    ELSE IF t - m[k].lastAttempt < RESTART_COOLDOWN_MS
         THEN [ok |-> FALSE, m |-> [m EXCEPT ![k].lastAttempt = t]]
    ELSE [ok |-> TRUE,
          m |-> [m EXCEPT ![k].count = @ + 1, ![k].lastAttempt = t]]

canRestart(m, k, t) ==
    IF ~MapHas(m, k) THEN [ok |-> TRUE, m |-> MapSet(m, k, FreshAttempts(t))]
    ELSE IF t - m[k].firstAttempt > RESTART_RESET_MS
         THEN [ok |-> TRUE, m |-> MapSet(m, k, FreshAttempts(t))]
    ELSE IF m[k].count >= MAX_RESTART_ATTEMPTS THEN [ok |-> FALSE, m |-> m]
    ELSE IF t - m[k].lastAttempt < RESTART_COOLDOWN_MS THEN [ok |-> FALSE, m |-> m]
    ELSE [ok |-> TRUE,
          m |-> [m EXCEPT ![k].count = @ + 1, ![k].lastAttempt = t]]

\* the 'ready' handler of setupSession (sessions.js:290-291)
onReadyKeepsRecord(m, k) == m

onReady(m, k) == MapDelete(m, k)

\* ------------------------------------------------------------------------
\* The observer of the restart policy.  Per key it keeps what a test
\* harness would note down of the calls made so far:
\*   script    how many calls of the documented sequence (t = 0, 10, 40,
\*             70, 100, 130 s) the key's history has matched exactly, or -1
\*   last      the result of the latest canRestart call and the count left
\*   allows    allowed calls since the record was last reset or cleared
\*   lastAllow tick of the latest allowed call since the last clearing, or -1
\*   cleared   a ready signal cleared the record and no crash came since
ScriptTimes == <<0, 1, 4, 7, 10, 13>>
ScriptExpect == << [ok |-> TRUE, count |-> 1], [ok |-> FALSE, count |-> 1],
                   [ok |-> TRUE, count |-> 2], [ok |-> TRUE, count |-> 3],
                   [ok |-> FALSE, count |-> 3], [ok |-> TRUE, count |-> 1] >>

NoCall == [ok |-> FALSE, count |-> 0, fresh |-> FALSE, made |-> FALSE]
ObsInit == [script |-> 0, last |-> NoCall, allows |-> 0, lastAllow |-> -1,
            cleared |-> FALSE]

\* the window of the key's record has run out, or there is no record
WindowOver(m, k, t) ==
    ~MapHas(m, k) \/ t - m[k].firstAttempt > RESTART_RESET_MS

ObsAfterCall(o, m, k, tick, r) ==
    [script |-> IF o.script >= 0 /\ o.script < Len(ScriptTimes)
                   /\ ScriptTimes[o.script + 1] = tick
                THEN o.script + 1 ELSE -1,
     last |-> [ok |-> r.ok, count |-> r.m[k].count, fresh |-> o.cleared,
               made |-> TRUE],
     allows |-> IF WindowOver(m, k, Millis(tick)) THEN 1
                ELSE IF r.ok THEN o.allows + 1 ELSE o.allows,
     lastAllow |-> IF r.ok THEN tick ELSE o.lastAllow,
     cleared |-> FALSE]

ObsAfterClear(o, byReady) ==
    [script |-> -1, last |-> o.last, allows |-> 0, lastAllow |-> -1,
     cleared |-> byReady]


\* ------------------------------------------------------------------------
\* acquireSessionLock / releaseSessionLock (sessions.js:17-26).  The wait
\* loop polls; the step that finds the lock free sets it in the same turn
\* of the event loop.
releaseSessionLockForgotten(locks, k) == locks

\* the test of the wait loop (sessions.js:18): the lock of k is not set
LockFreeNotTested(locks, k) == TRUE

LockFree(locks, k) == k \notin locks

releaseSessionLock(locks, k) == locks \ {k}

\* ------------------------------------------------------------------------
\* Clients.  st: "free" (no such client yet), "new" (Client object, no
\* Chrome yet), "alive", "dead".  lis: the page events ('close', 'error')
\* whose once-listener is still attached.  rdy: 'ready' was emitted.
\* spc: where the setupSession that made the client stands.  caller: who
\* awaits that setupSession.
ApiCaller == [kind |-> "api", w |-> 0, ev |-> "none"]
ReloadCaller == [kind |-> "reload", w |-> 0, ev |-> "none"]
RecCaller(w, e) == [kind |-> "rec", w |-> w, ev |-> e]
FreeWorker == [key |-> 0, st |-> "free", lis |-> {}, rdy |-> FALSE,
               spc |-> "none", caller |-> ApiCaller]

InFlight == {"lstat", "unlink", "launch", "init"}
HasFree == \E w \in Workers : wk[w].st = "free"
FirstFree(wkv) == CHOOSE w \in Workers :
    wkv[w].st = "free" /\ \A v \in Workers : wkv[v].st = "free" => w <= v

\* a process with this pid exists (process.kill(pid, 0) does not throw)
Alive(p) == (p \in Workers /\ wk[p].st = "alive") \/ p \in orphans

\* SIGKILL to process p
KillProc(wkv, p) ==
    IF p \in Workers /\ wkv[p].st = "alive"
    THEN [wkv EXCEPT ![p].st = "dead"] ELSE wkv

\* killBrowserProcess (sessions.js:52-64): the client's own child process
killBrowserProcessSkipped(wkv, w) == wkv

killBrowserProcess(wkv, w) == KillProc(wkv, w)

\* pupPage.removeAllListeners('close') and ('error') (sessions.js:614-615,
\* 648-649, 690-691)
removeAllListenersSkipped(wkv, w) == wkv

removeAllListeners(wkv, w) == [wkv EXCEPT ![w].lis = {}]

\* the client is what the registry holds for its key: ACTIVE in sessions,
\* or PENDING with its setupSession in flight
Active(w) == MapHas(sessions, wk[w].key) /\ sessions[wk[w].key] = w
Pending(w) == wk[w].spc \in InFlight /\ wk[w].key \in pendingSessions
Held(w) == w \in Workers /\ wk[w].st # "free" /\ (Active(w) \/ Pending(w))

\* ------------------------------------------------------------------------
\* Operations in flight
TdIdle == [pc |-> "idle", kind |-> "none", w |-> 0, val |-> "none",
           ticks |-> 0, flush |-> FALSE, res |-> "none"]
RlIdle == [pc |-> "idle", w |-> 0]
FlIdle == [pc |-> "idle", todo |-> {}, only |-> FALSE, cur |-> 0,
           val |-> "none"]
\* what a test harness counts per key: setupSession calls, those answered
\* "already exists" and "already in progress", setups that failed, and the
\* teardowns in a row that met the key ABSENT from start to end (open: such
\* a teardown is under way)
\* waiters: the operations polling for the lock of the key, in the order
\* of their acquireSessionLock calls; denied: the latest canRestart call
\* for the key denied and no setupSession was requested from outside since
StatInit == [calls |-> 0, exists |-> 0, busy |-> 0, fails |-> 0, absent |-> 0,
             open |-> FALSE, waiters |-> << >>, denied |-> FALSE]

\* ------------------------------------------------------------------------
\* setupSession (sessions.js:186-313)

\* the two guards at the top (sessions.js:188-195)
setupConflictSessionsOnly(sess, pend, k) == MapHas(sess, k)

setupConflictPendingOnly(sess, pend, k) == k \in pend

setupConflict(sess, pend, k) == MapHas(sess, k) \/ k \in pend

\* the synchronous head of setupSession: conflict, or reserve the key and
\* make the Client.  Gives the clients and the pending set it leaves, and
\* the answer of a call that ends here.
SetupStart(wkv, sess, pend, k, c) ==
    IF setupConflict(sess, pend, k)
    THEN [wk |-> wkv, pend |-> pend, started |-> FALSE,
          res |-> IF MapHas(sess, k) THEN "exists" ELSE "busy"]
    ELSE [wk |-> [wkv EXCEPT ![FirstFree(wkv)] =
                     [key |-> k, st |-> "new", lis |-> {}, rdy |-> FALSE,
                      spc |-> IF releaseBrowserLock THEN "lstat" ELSE "launch",
                      caller |-> c]],
          pend |-> pend \cup {k}, started |-> TRUE, res |-> "none"]

CanStart(sess, pend, k) == setupConflict(sess, pend, k) \/ HasFree

\* the caller of a setupSession that returned goes on: reloadSession and
\* safeRestartSession release the lock of the key (sessions.js:634, 341)
LocksAfterReturn(c, k) ==
    IF c.kind = "api" THEN sessionLocks ELSE releaseSessionLock(sessionLocks, k)
RlAfterReturn(c, k) ==
    IF c.kind = "reload" THEN [rl EXCEPT ![k] = RlIdle] ELSE rl
RecAfterReturn(c) ==
    IF c.kind = "rec" THEN [rec EXCEPT ![c.w][c.ev] = "idle"] ELSE rec

\* setupSession called from outside (route handler, restoreSessions)
SetupCall(k) ==
    LET r == SetupStart(wk, sessions, pendingSessions, k, ApiCaller) IN
    /\ CanStart(sessions, pendingSessions, k)
    /\ wk' = r.wk
    /\ pendingSessions' = r.pend
    /\ used' = IF r.started THEN used + 1 ELSE used
    /\ UNCHANGED <<sessions, sessionLocks, restartAttempts, now,
                   releaseBrowserLock, disk, ops, victims>>

\* lstat of the SingletonLock, then the test of sessions (275-283)
SetupLstat(w) ==
    /\ wk[w].spc = "lstat"
    /\ wk' = [wk EXCEPT ![w].spc =
                 IF lockArt[wk[w].key] # 0 /\ ~MapHas(sessions, wk[w].key)
                 THEN "unlink" ELSE "launch"]
    /\ UNCHANGED <<registry, now, releaseBrowserLock, disk, ops, victims, used>>

\* unlink of the lock found (284); it throws when the lock is gone, and
\* the outer catch drops the reservation and returns the failure (309-311)
SetupUnlink(w) ==
    LET k == wk[w].key IN
    /\ wk[w].spc = "unlink"
    /\ IF lockArt[k] # 0
       THEN /\ lockArt' = [lockArt EXCEPT ![k] = 0]
            /\ wk' = [wk EXCEPT ![w].spc = "launch"]
            /\ UNCHANGED <<registry, rl, rec>>
       ELSE /\ wk' = [wk EXCEPT ![w] = FreeWorker]
            /\ pendingSessions' = pendingSessions \ {k}
            /\ sessionLocks' = LocksAfterReturn(wk[w].caller, k)
            /\ rl' = RlAfterReturn(wk[w].caller, k)
            /\ rec' = RecAfterReturn(wk[w].caller)
            /\ UNCHANGED <<sessions, restartAttempts, lockArt>>
    /\ UNCHANGED <<now, releaseBrowserLock, dir, orphans, td, fl, victims, used>>

\* client.initialize() starts Chrome (298).  Chrome refuses a work
\* directory whose SingletonLock names a live process; otherwise it takes
\* the lock.  The page exists from here on and initializeEvents attaches
\* the crash listeners to it (320, 345-352).
SetupLaunch(w) ==
    LET k == wk[w].key IN
    /\ wk[w].spc = "launch"
    /\ ~(lockArt[k] > 0 /\ Alive(lockArt[k]))
    /\ wk' = [wk EXCEPT ![w].st = "alive", ![w].lis = Events, ![w].spc = "init"]
    /\ lockArt' = [lockArt EXCEPT ![k] = w]
    /\ dir' = dir \cup {k}
    /\ UNCHANGED <<registry, now, releaseBrowserLock, orphans, ops, victims, used>>

\* Chrome does not come up (refused, or any launch error): initialize()
\* rejects, killBrowserProcess finds no process, the reservation is
\* dropped and the failure returned (299-304, 309-311)
SetupLaunchFail(w) ==
    LET k == wk[w].key IN
    /\ wk[w].spc = "launch"
    /\ wk' = [wk EXCEPT ![w] = FreeWorker]
    /\ dir' = dir \cup {k}
    /\ pendingSessions' = pendingSessions \ {k}
    /\ sessionLocks' = LocksAfterReturn(wk[w].caller, k)
    /\ rl' = RlAfterReturn(wk[w].caller, k)
    /\ rec' = RecAfterReturn(wk[w].caller)
    /\ UNCHANGED <<sessions, restartAttempts, now, releaseBrowserLock,
                   lockArt, orphans, td, fl, victims, used>>

\* initialize() resolves: the client is registered (306-308)
SetupInitOk(w) ==
    LET k == wk[w].key IN
    /\ wk[w].spc = "init"
    /\ wk[w].st = "alive"
    /\ wk' = [wk EXCEPT ![w].spc = "done"]
    /\ sessions' = MapSet(sessions, k, w)
    /\ pendingSessions' = pendingSessions \ {k}
    /\ sessionLocks' = LocksAfterReturn(wk[w].caller, k)
    /\ rl' = RlAfterReturn(wk[w].caller, k)
    /\ rec' = RecAfterReturn(wk[w].caller)
    /\ UNCHANGED <<restartAttempts, now, releaseBrowserLock, disk, td, fl,
                   victims, used>>

\* initialize() rejects after Chrome came up: the process is killed and
\* the reservation dropped (299-304, 309-311)
SetupInitFail(w) ==
    LET k == wk[w].key IN
    /\ wk[w].spc = "init"
    /\ wk' = [killBrowserProcess(wk, w) EXCEPT ![w].spc = "done"]
    /\ pendingSessions' = pendingSessions \ {k}
    /\ sessionLocks' = LocksAfterReturn(wk[w].caller, k)
    /\ rl' = RlAfterReturn(wk[w].caller, k)
    /\ rec' = RecAfterReturn(wk[w].caller)
    /\ UNCHANGED <<sessions, restartAttempts, now, releaseBrowserLock, disk,
                   td, fl, victims, used>>

\* the client emits 'ready' (290-291)
Ready(w) ==
    /\ wk[w].st = "alive"
    /\ ~wk[w].rdy
    /\ wk' = [wk EXCEPT ![w].rdy = TRUE]
    /\ restartAttempts' = onReady(restartAttempts, wk[w].key)
    /\ UNCHANGED <<sessions, pendingSessions, sessionLocks, now,
                   releaseBrowserLock, disk, ops, victims, used>>

\* Chrome exits on its own
WorkerExit(w) ==
    /\ wk[w].st = "alive"
    /\ wk' = [wk EXCEPT ![w].st = "dead"]
    /\ UNCHANGED <<registry, now, releaseBrowserLock, disk, ops, victims,
                   used>>

\* ------------------------------------------------------------------------
\* validateSession (sessions.js:109-159), the results it can give for k:
\* "notfound" (no client), "ok" (session_connected), "nc"
\* (session_not_connected), "other" (tab closed, page not answering, error)
ProbeOutcomes(k) ==
    IF ~MapHas(sessions, k) THEN {"notfound"}
    ELSE IF wk[sessions[k]].st # "alive" THEN {"other"}
    ELSE IF wk[sessions[k]].rdy THEN {"ok", "nc", "other"}
    ELSE {"nc", "other"}

\* validateSession step by step.  trips: how each round-trip
\* pupPage.evaluate('1') of this call ended, "answer", "timeout" (the
\* 1 s timer of the race at 131-134 came first) or "throw"
ProbeIdle == [pc |-> "idle", w |-> 0, maxRetry |-> 0, trips |-> << >>,
              state |-> "none", res |-> "none"]
TripOutcomes == {"answer", "timeout", "throw"}
StateOutcomes == {"CONNECTED", "OTHER", "throw"}

ProbeFrame == UNCHANGED <<registry, now, supervisor, sd, outside, obs, stat>>

\* the call: no client, no probe (114-117)
ProbeCall(k) ==
    /\ probe.pc \in {"idle", "done"}
    /\ probe' = IF ~MapHas(sessions, k)
                THEN [ProbeIdle EXCEPT !.pc = "done",
                                       !.res = "session_not_found"]
                ELSE [ProbeIdle EXCEPT !.pc = "try", !.w = sessions[k]]
    /\ ProbeFrame

\* the page is closed (128-130); a page of a running Chrome is open
ProbeClosed ==
    /\ probe.pc = "try"
    /\ wk[probe.w].st # "alive"
    /\ probe' = [probe EXCEPT !.pc = "done", !.res = "browser tab closed"]
    /\ ProbeFrame

\* one round-trip (131-141): both promises of the race resolve, so an
\* answer and a timeout alike leave the loop (135); only a rejected
\* evaluate is caught and retried, twice at most (136-141)
ProbeTrip(o) ==
    /\ probe.pc = "try"
    /\ o = "answer" => wk[probe.w].st = "alive"
    /\ probe' =
          IF o = "throw"
          THEN IF probe.maxRetry = 2
               THEN [probe EXCEPT !.pc = "done", !.res = "session closed",
                                  !.trips = Append(@, o)]
               ELSE [probe EXCEPT !.maxRetry = @ + 1,
                                  !.trips = Append(@, o)]
          ELSE [probe EXCEPT !.pc = "state", !.trips = Append(@, o)]
    /\ ProbeFrame

\* client.getState() and the answer (144-158)
ProbeGetState(s) ==
    /\ probe.pc = "state"
    /\ s = "CONNECTED" => wk[probe.w].st = "alive" /\ wk[probe.w].rdy
    /\ s = "OTHER" => wk[probe.w].st = "alive"
    /\ probe' = [probe EXCEPT
                    !.pc = "done",
                    !.state = IF s = "throw" THEN "none" ELSE s,
                    !.res = CASE s = "CONNECTED" -> "session_connected"
                              [] s = "OTHER" -> "session_not_connected"
                              [] OTHER -> "error"]
    /\ ProbeFrame

\* ------------------------------------------------------------------------
\* gracefulShutdown (server.js:29-86).  pc "run": isShuttingDown is false;
\* snap: the clients the loop at 57 started to destroy; done: those whose
\* client.destroy() resolved; killed: those sent SIGKILL (69, 44);
\* code: what process.exit was given; signals, starts: SIGTERM/SIGINT
\* received and shutdowns begun
SdIdle == [pc |-> "run", snap |-> {}, done |-> {}, killed |-> {},
           code |-> -1, signals |-> 0, starts |-> 0]
MaxSignals == 2
Running == sd.pc # "exited"
Registered == {sessions[k] : k \in DOMAIN sessions}
SdFrame == UNCHANGED <<registry, now, releaseBrowserLock, disk, ops, used,
                       victims, probe, outside, obs, stat>>

\* once every destroy started is settled the process exits with 0
\* (78-81); no other callback runs between the last settlement and the exit
SdSettled(s) ==
    IF s.snap \subseteq s.done \cup s.killed
    THEN [s EXCEPT !.pc = "exited", !.code = 0] ELSE s

\* SIGTERM or SIGINT (88-89): a shutdown under way ignores it (32); the
\* first one arms the timer, closes the server and starts one destroy per
\* registered client, each up to its first await (33-63)
Signal ==
    /\ Running
    /\ sd.signals < MaxSignals
    /\ IF sd.pc # "run"
       THEN /\ sd' = [sd EXCEPT !.signals = @ + 1]
            /\ wk' = wk
       ELSE /\ sd' = SdSettled([sd EXCEPT !.signals = @ + 1,
                                          !.starts = @ + 1,
                                          !.pc = "closing",
                                          !.snap = Registered])
            /\ wk' = [w \in Workers |->
                        IF w \in Registered THEN [wk[w] EXCEPT !.lis = {}]
                        ELSE wk[w]]
    /\ SdFrame

\* client.destroy() resolves: Chrome is closed (63-64, 78)
SdDestroyOk(w) ==
    /\ sd.pc = "closing"
    /\ w \in sd.snap \ (sd.done \cup sd.killed)
    /\ wk' = KillProc(wk, w)
    /\ sd' = SdSettled([sd EXCEPT !.done = @ \cup {w}])
    /\ SdFrame

\* client.destroy() rejects: SIGKILL to its Chrome (65-72)
SdDestroyFail(w) ==
    /\ sd.pc = "closing"
    /\ w \in sd.snap \ (sd.done \cup sd.killed)
    /\ wk' = KillProc(wk, w)
    /\ sd' = SdSettled([sd EXCEPT !.killed = @ \cup {w}])
    /\ SdFrame

\* the 30 s timer fires first: SIGKILL to the Chrome of every client the
\* registry holds by now, exit 1 (38-50)
SdDeadline ==
    /\ sd.pc = "closing"
    /\ wk' = [w \in Workers |->
                IF w \in Registered /\ wk[w].st = "alive"
                THEN [wk[w] EXCEPT !.st = "dead"] ELSE wk[w]]
    /\ sd' = [sd EXCEPT !.pc = "exited", !.code = 1,
                        !.killed = @ \cup Registered]
    /\ SdFrame

\* ------------------------------------------------------------------------
\* destroySession (638-677) and deleteSession (679-726)

\* the head: the lock is taken, the client looked up; without a client
\* the lock-file reaper is called (641-644, 682-685), with one its crash
\* listeners are removed (648-649, 690-691)
TdEnter(k, kind, val, flush) ==
    /\ LockFree(sessionLocks, k)
    /\ sessionLocks' = sessionLocks \cup {k}
    /\ IF MapHas(sessions, k)
       THEN /\ td' = [td EXCEPT ![k] = [pc |-> "stop", kind |-> kind,
                         w |-> sessions[k], val |-> val, ticks |-> 0,
                         flush |-> flush, res |-> "none"]]
            /\ wk' = removeAllListeners(wk, sessions[k])
       ELSE /\ td' = [td EXCEPT ![k] = [pc |-> "orphan", kind |-> kind,
                         w |-> 0, val |-> val, ticks |-> 0,
                         flush |-> flush, res |-> "none"]]
            /\ wk' = wk
    /\ UNCHANGED <<sessions, pendingSessions, restartAttempts, now,
                   releaseBrowserLock, disk, rl, rec, victims>>

TdStart(k, kind, val, flush) ==
    /\ td[k].pc = "idle"
    /\ TdEnter(k, kind, val, flush)

DestroyBegin(k) ==
    /\ used' = used + 1
    /\ TdStart(k, "destroy", "none", FALSE)
    /\ fl' = fl

\* the route handler validates the session and passes the result on
DeleteBegin(k) ==
    /\ used' = used + 1
    /\ \E val \in ProbeOutcomes(k) : TdStart(k, "delete", val, FALSE)
    /\ fl' = fl

\* destroySession is called while the lock of the key is set: it polls
\* (638-639, 17-20)
DestroyWait(k) ==
    /\ td[k].pc = "idle"
    /\ ~LockFree(sessionLocks, k)
    /\ used' = used + 1
    /\ td' = [td EXCEPT ![k] = [TdIdle EXCEPT !.pc = "wait", !.kind = "destroy"]]
    /\ UNCHANGED <<registry, now, releaseBrowserLock, wk, disk, rl, rec, fl,
                   victims>>

\* a turn of its wait loop finds the lock free (18, 21)
TdAcquire(k) ==
    /\ td[k].pc = "wait"
    /\ TdEnter(k, td[k].kind, td[k].val, FALSE)
    /\ UNCHANGED <<fl, used>>

\* the end of a teardown: the finally releases the lock; a deleteSession
\* called by flushSessions lets the flush go on, or ends it with the error
TdEnd(k, res) ==
    /\ td' = [td EXCEPT ![k] = [TdIdle EXCEPT !.res = res]]
    /\ sessionLocks' = releaseSessionLock(sessionLocks, k)
    /\ fl' = IF ~td[k].flush THEN fl
             ELSE IF res = "error" THEN FlIdle
             ELSE [fl EXCEPT !.pc = "next", !.cur = 0, !.val = "none"]

\* fs.promises.unlink of the SingletonLock of k (sessions.js:100)
unlinkLockSkipped(la, k) == la

unlinkLock(la, k) == [la EXCEPT ![k] = 0]

\* who asked for the teardown of k
Origin(k) ==
    IF ~td[k].flush THEN td[k].kind
    ELSE IF fl.only THEN "flushInactive" ELSE "flushAll"

\* killOrphanedBrowserByLockFile up to the kill (66-98): no lock, nothing
\* to do; a pid read and alive, SIGKILL; in every other case on to unlink
TdOrphan(k) ==
    LET p == lockArt[k] IN
    /\ td[k].pc = "orphan"
    /\ IF p = 0
       THEN /\ pendingSessions' = pendingSessions \ {k}
            /\ IF td[k].kind = "destroy"
               THEN TdEnd(k, "none")
               ELSE /\ td' = [td EXCEPT ![k].pc = "rmdir"]
                    /\ UNCHANGED <<sessionLocks, fl>>
            /\ UNCHANGED <<wk, orphans, victims>>
       ELSE /\ td' = [td EXCEPT ![k].pc = "unlink"]
            /\ IF p > 0 /\ Alive(p)
               THEN /\ wk' = KillProc(wk, p)
                    /\ orphans' = orphans \ {p}
                    /\ victims' = IF Held(p)
                                  THEN victims \cup {[pid |-> p, key |-> k,
                                           owner |-> wk[p].key, by |-> Origin(k),
                                           active |-> Active(p)]}
                                  ELSE victims
               ELSE UNCHANGED <<wk, orphans, victims>>
            /\ UNCHANGED <<pendingSessions, sessionLocks, fl>>
    /\ UNCHANGED <<sessions, restartAttempts, now, releaseBrowserLock,
                   lockArt, dir, rl, rec, used>>

\* the lock is unlinked (100), the caller drops the reservation (645, 686)
TdUnlink(k) ==
    /\ td[k].pc = "unlink"
    /\ lockArt' = unlinkLock(lockArt, k)
    /\ pendingSessions' = pendingSessions \ {k}
    /\ IF td[k].kind = "destroy"
       THEN TdEnd(k, "none")
       ELSE /\ td' = [td EXCEPT ![k].pc = "rmdir"]
            /\ UNCHANGED <<sessionLocks, fl>>
    /\ UNCHANGED <<sessions, restartAttempts, now, releaseBrowserLock, wk,
                   dir, orphans, rl, rec, victims, used>>

\* the graceful stop (655-659, 697-707): destroy(), or for a delete
\* logout() / destroy() / nothing by the validation.  It stops Chrome ...
TdStopClean(k) ==
    /\ td[k].pc = "stop"
    /\ td[k].kind = "destroy" \/ td[k].val \in {"ok", "nc"}
    /\ wk' = KillProc(wk, td[k].w)
    /\ td' = [td EXCEPT ![k].pc = "poll"]
    /\ UNCHANGED <<registry, now, releaseBrowserLock, disk, rl, rec, fl,
                   victims, used>>

\* ... or fails, or is not tried, and leaves Chrome as it is
TdStopFail(k) ==
    /\ td[k].pc = "stop"
    /\ td' = [td EXCEPT ![k].pc = "poll"]
    /\ UNCHANGED <<registry, now, releaseBrowserLock, wk, disk, rl, rec, fl,
                   victims, used>>

\* one turn of the wait loop (660-664, 708-712)
TdPollTick(k) ==
    /\ td[k].pc = "poll"
    /\ wk[td[k].w].st = "alive"
    /\ td[k].ticks < PollTicks
    /\ td' = [td EXCEPT ![k].ticks = @ + 1]
    /\ UNCHANGED <<registry, now, releaseBrowserLock, wk, disk, rl, rec, fl,
                   victims, used>>

\* the loop is left: kill if still connected, clear the registry
\* (665-670, 713-718)
TdFinish(k) ==
    /\ td[k].pc = "poll"
    /\ wk[td[k].w].st # "alive" \/ td[k].ticks = PollTicks
    /\ wk' = killBrowserProcess(wk, td[k].w)
    /\ sessions' = MapDelete(sessions, k)
    /\ pendingSessions' = pendingSessions \ {k}
    /\ restartAttempts' = MapDelete(restartAttempts, k)
    /\ IF td[k].kind = "destroy"
       THEN TdEnd(k, "none")
       ELSE /\ td' = [td EXCEPT ![k].pc = "rmdir"]
            /\ UNCHANGED <<sessionLocks, fl>>
    /\ UNCHANGED <<now, releaseBrowserLock, disk, rl, rec, victims, used>>

\* deleteSessionFolder (587-605): realpath throws without the directory,
\* and a resolved path outside the sessions folder is refused (597-599);
\* the orphan path swallows the error (687), the other one throws it (719)
TdRmdir(k) ==
    /\ td[k].pc = "rmdir"
    /\ IF k \in dir /\ k \notin outside
       THEN /\ dir' = dir \ {k}
            /\ lockArt' = [lockArt EXCEPT ![k] = 0]
            /\ TdEnd(k, "none")
       ELSE /\ UNCHANGED <<dir, lockArt>>
            /\ TdEnd(k, IF td[k].w = 0 THEN "none" ELSE "error")
    /\ UNCHANGED <<sessions, pendingSessions, restartAttempts, now,
                   releaseBrowserLock, wk, orphans, rl, rec, victims, used>>

\* ------------------------------------------------------------------------
\* reloadSession (608-636)

\* the head: lock, look the client up; none, return (and release); else
\* remove its crash listeners and start closing pages and browser
ReloadBegin(k) ==
    /\ rl[k].pc = "idle"
    /\ LockFree(sessionLocks, k)
    /\ IF MapHas(sessions, k)
       THEN /\ used' = used + 1
            /\ sessionLocks' = sessionLocks \cup {k}
            /\ rl' = [rl EXCEPT ![k] = [pc |-> "close", w |-> sessions[k]]]
            /\ wk' = removeAllListeners(wk, sessions[k])
       ELSE /\ sessionLocks' = releaseSessionLock(sessionLocks \cup {k}, k)
            /\ UNCHANGED <<rl, wk, used>>
    /\ UNCHANGED <<sessions, pendingSessions, restartAttempts, now,
                   releaseBrowserLock, disk, td, rec, fl, victims>>

\* what follows the close (627-629): the registry entry goes and
\* setupSession is called
ReloadRestart(k, wkv) ==
    LET sess == MapDelete(sessions, k)
        pend == pendingSessions \ {k}
        r == SetupStart(wkv, sess, pend, k, ReloadCaller) IN
    /\ HasFree
    /\ sessions' = sess
    /\ pendingSessions' = r.pend
    /\ wk' = r.wk
    /\ rl' = [rl EXCEPT ![k].pc = "setup"]
    /\ UNCHANGED <<sessionLocks, restartAttempts, now, releaseBrowserLock,
                   disk, td, rec, fl, victims, used>>

\* the browser closes within the 5 seconds (618-623)
ReloadClosed(k) ==
    /\ rl[k].pc = "close"
    /\ ReloadRestart(k, KillProc(wk, rl[k].w))

\* the 5 seconds pass first: the race resolves, nothing is thrown and
\* nothing killed (620-623)
ReloadCloseTimeout(k) ==
    /\ rl[k].pc = "close"
    /\ ReloadRestart(k, wk)

\* closing throws: killBrowserProcess (624-626)
ReloadCloseThrows(k) ==
    /\ rl[k].pc = "close"
    /\ ReloadRestart(k, killBrowserProcess(wk, rl[k].w))

\* ------------------------------------------------------------------------
\* safeRestartSession (321-343), run by the page's 'close' and 'error'
\* once-listeners (345-352) with the client of the closure.  The listeners
\* exist when the recoverSessions flag of the configuration is set (319),
\* which is the case modelled.

\* the critical section starts: registry entry and reservation go,
\* client.destroy() is called (332-334)
RecEnter(w, e, restarts) ==
    /\ sessionLocks' = sessionLocks \cup {wk[w].key}
    /\ sessions' = MapDelete(sessions, wk[w].key)
    /\ pendingSessions' = pendingSessions \ {wk[w].key}
    /\ restartAttempts' = restarts
    /\ rec' = [rec EXCEPT ![w][e] = "destroy"]

\* the page event arrives: 'error' from a live Chrome, 'close' from a
\* live or a dead one
CrashEvent(w, e) ==
    LET k == wk[w].key
        r == canRestart(restartAttempts, k, Millis(now)) IN
    /\ e \in wk[w].lis
    /\ wk[w].st = "alive" \/ (wk[w].st = "dead" /\ e = "close")
    /\ IF ~r.ok
       THEN \* 322-327
            /\ restartAttempts' = r.m
            /\ sessions' = MapDelete(sessions, k)
            /\ pendingSessions' = pendingSessions \ {k}
            /\ wk' = [killBrowserProcess(wk, w) EXCEPT ![w].lis = @ \ {e}]
            /\ UNCHANGED rec
            /\ UNCHANGED sessionLocks
       ELSE /\ wk' = [wk EXCEPT ![w].lis = @ \ {e}]
            /\ IF ~LockFree(sessionLocks, k)
               THEN /\ restartAttempts' = r.m
                    /\ rec' = [rec EXCEPT ![w][e] = "acq"]
                    /\ UNCHANGED <<sessions, pendingSessions, sessionLocks>>
               ELSE RecEnter(w, e, r.m)
    /\ used' = used + 1
    /\ UNCHANGED <<now, releaseBrowserLock, disk, td, rl, fl, victims>>

\* the polling acquireSessionLock finds the lock free (330)
RecAcquire(w, e) ==
    /\ rec[w][e] = "acq"
    /\ LockFree(sessionLocks, wk[w].key)
    /\ RecEnter(w, e, restartAttempts)
    /\ UNCHANGED <<now, releaseBrowserLock, wk, disk, td, rl, fl, victims, used>>

\* destroy() has settled, killBrowserProcess, then the 2 s wait (334-336)
RecKill(w, e) ==
    /\ rec[w][e] = "destroy"
    /\ wk' = killBrowserProcess(wk, w)
    /\ rec' = [rec EXCEPT ![w][e] = "sleep"]
    /\ UNCHANGED <<registry, now, releaseBrowserLock, disk, td, rl, fl,
                   victims, used>>

\* setupSession is called (337); a conflict returns at once and the lock
\* is released (341)
RecSetup(w, e) ==
    LET k == wk[w].key
        r == SetupStart(wk, sessions, pendingSessions, k, RecCaller(w, e)) IN
    /\ rec[w][e] = "sleep"
    /\ CanStart(sessions, pendingSessions, k)
    /\ wk' = r.wk
    /\ pendingSessions' = r.pend
    /\ IF r.started
       THEN /\ rec' = [rec EXCEPT ![w][e] = "setup"]
            /\ UNCHANGED sessionLocks
       ELSE /\ rec' = [rec EXCEPT ![w][e] = "idle"]
            /\ sessionLocks' = releaseSessionLock(sessionLocks, k)
    /\ UNCHANGED <<sessions, restartAttempts, now, releaseBrowserLock, disk,
                   td, rl, fl, victims, used>>

\* ------------------------------------------------------------------------
\* flushSessions (729-756)

\* readdir (731)
FlushBegin(only) ==
    /\ fl.pc = "idle"
    /\ used' = used + 1
    /\ fl' = [pc |-> "next", todo |-> dir, only |-> only, cur |-> 0,
              val |-> "none"]
    /\ UNCHANGED <<registry, now, releaseBrowserLock, wk, disk, td, rl, rec,
                   victims>>

\* the next directory is validated and kept or given to deleteSession
\* (735-747)
FlushValidate(k) ==
    /\ fl.pc = "next"
    /\ k \in fl.todo
    /\ \E val \in ProbeOutcomes(k) :
          fl' = IF ~fl.only \/ val # "ok"
                THEN [fl EXCEPT !.pc = "del", !.todo = @ \ {k}, !.cur = k,
                                !.val = val]
                ELSE [fl EXCEPT !.todo = @ \ {k}]
    /\ UNCHANGED <<registry, now, releaseBrowserLock, wk, disk, td, rl, rec,
                   victims, used>>

\* deleteSession of the flush gets the lock (743, 680)
FlushDelete(k) ==
    /\ fl.pc = "del"
    /\ fl.cur = k
    /\ TdStart(k, "delete", fl.val, TRUE)
    /\ fl' = [fl EXCEPT !.pc = "wait"]
    /\ UNCHANGED used

\* all directories done (751)
FlushEnd ==
    /\ fl.pc = "next"
    /\ fl.todo = {}
    /\ fl' = FlIdle
    /\ UNCHANGED <<registry, now, releaseBrowserLock, wk, disk, td, rl, rec,
                   victims, used>>

\* ------------------------------------------------------------------------
\* The module is loaded: empty registry (sessions.js:4-7), nothing in
\* flight.  The sessions folder is what an earlier run left: nothing, or
\* the work directory of one key with a SingletonLock that is unreadable,
\* or names the pid the first Chrome of this run will get, or names a
\* Chrome of the earlier run that is still alive.
InitInside ==
    /\ sessions = EmptyMap
    /\ pendingSessions = {}
    /\ sessionLocks = {}
    /\ restartAttempts = EmptyMap
    /\ now = 0
    /\ releaseBrowserLock \in BOOLEAN
    /\ wk = [w \in Workers |-> FreeWorker]
    /\ lockArt \in [Keys -> {0, -1, 1} \cup {OrphanPid(k) : k \in Keys}]
    /\ Cardinality({k \in Keys : lockArt[k] # 0}) <= 1
    /\ \A k \in Keys : lockArt[k] > MaxWorkers => lockArt[k] = OrphanPid(k)
    /\ dir = {k \in Keys : lockArt[k] # 0}
    /\ orphans = {OrphanPid(k) : k \in {x \in Keys : lockArt[x] = OrphanPid(x)}}
    /\ td = [k \in Keys |-> TdIdle]
    /\ rl = [k \in Keys |-> RlIdle]
    /\ rec = [w \in Workers |-> [e \in Events |-> "idle"]]
    /\ fl = FlIdle
    /\ used = 0
    /\ victims = {}
    /\ probe = ProbeIdle
    /\ sd = SdIdle
    /\ obs = [k \in Keys |-> ObsInit]
    /\ stat = [k \in Keys |-> StatInit]

\* every work directory is a directory of the sessions folder
Init == InitInside /\ outside = {}

\* ------------------------------------------------------------------------
\* The restart policy on its own: crash signals, ready signals and
\* teardowns arrive for any key at any time.
PolicyCrash(k) ==
    LET r == canRestart(restartAttempts, k, Millis(now)) IN
    /\ restartAttempts' = r.m
    /\ obs' = [obs EXCEPT ![k] = ObsAfterCall(@, restartAttempts, k, now, r)]
    /\ UNCHANGED <<sessions, pendingSessions, sessionLocks, now, supervisor, probe,
                   sd, outside, stat>>

PolicyReady(k) ==
    /\ restartAttempts' = onReady(restartAttempts, k)
    /\ obs' = [obs EXCEPT ![k] = ObsAfterClear(@, TRUE)]
    /\ UNCHANGED <<sessions, pendingSessions, sessionLocks, now, supervisor, probe,
                   sd, outside, stat>>

\* destroySession / deleteSession of a registered key (sessions.js:670, 718)
PolicyTeardown(k) ==
    /\ restartAttempts' = MapDelete(restartAttempts, k)
    /\ obs' = [obs EXCEPT ![k] = ObsAfterClear(@, FALSE)]
    /\ UNCHANGED <<sessions, pendingSessions, sessionLocks, now, supervisor, probe,
                   sd, outside, stat>>

PolicyTick ==
    /\ now < PolicyHorizon
    /\ now' = now + 1
    /\ UNCHANGED <<registry, supervisor, ghosts>>

PolicyNext ==
    \/ \E k \in Keys : PolicyCrash(k)
    \/ \E k \in Keys : PolicyReady(k)
    \/ \E k \in Keys : PolicyTeardown(k)
    \/ PolicyTick

\* the policy reads nothing of the sessions folder: it is studied with the
\* folder empty
PolicyInit == Init /\ dir = {} /\ ~releaseBrowserLock

SpecPolicy == PolicyInit /\ [][PolicyNext]_vars

\* ------------------------------------------------------------------------
\* a request or page event that is within the n a run may have and is not
\* counted by the observers
Within(n) == used' <= n /\ UNCHANGED ghosts

\* ------------------------------------------------------------------------
\* setupSession on its own: calls for any key at any time, counted
CountCall(k) ==
    LET r == SetupStart(wk, sessions, pendingSessions, k, ApiCaller) IN
    /\ stat[k].calls < MaxCalls
    /\ stat' = [stat EXCEPT ![k].calls = @ + 1,
                            ![k].exists = IF r.res = "exists" THEN @ + 1 ELSE @,
                            ![k].busy = IF r.res = "busy" THEN @ + 1 ELSE @]
    /\ UNCHANGED <<probe, sd, outside, obs>>

CountFail(k) ==
    /\ stat' = [stat EXCEPT ![k].fails = @ + 1]
    /\ UNCHANGED <<probe, sd, outside, obs>>

SetupNext ==
    \/ \E k \in Keys : SetupCall(k) /\ CountCall(k)
    \/ \E w \in Workers : SetupLstat(w) /\ UNCHANGED ghosts
    \/ \E w \in Workers :
          /\ SetupUnlink(w)
          /\ IF lockArt[wk[w].key] = 0 THEN CountFail(wk[w].key)
             ELSE UNCHANGED ghosts
    \/ \E w \in Workers : SetupLaunch(w) /\ UNCHANGED ghosts
    \/ \E w \in Workers : SetupLaunchFail(w) /\ CountFail(wk[w].key)
    \/ \E w \in Workers : SetupInitOk(w) /\ UNCHANGED ghosts
    \/ \E w \in Workers : SetupInitFail(w) /\ CountFail(wk[w].key)

SpecSetup == Init /\ [][SetupNext]_vars

\* ------------------------------------------------------------------------
\* setupSession, destroySession and deleteSession on their own
Absent(k) == ~MapHas(sessions, k) /\ k \notin pendingSessions

\* the count of teardowns of k after a step of one
TdObserved(s, k) ==
    IF td[k].pc = "idle"
    THEN [s EXCEPT !.open = Absent(k), !.absent = IF Absent(k) THEN @ ELSE 0]
    ELSE IF ~(s.open /\ Absent(k)) THEN [s EXCEPT !.open = FALSE, !.absent = 0]
    ELSE IF td'[k].pc = "idle" THEN [s EXCEPT !.open = FALSE, !.absent = @ + 1]
    ELSE s

CountTd(k) ==
    /\ stat' = [stat EXCEPT ![k] = TdObserved(@, k)]
    /\ UNCHANGED <<probe, sd, outside, obs>>

CountSetup(k) ==
    /\ stat' = [stat EXCEPT ![k].open = FALSE, ![k].absent = 0]
    /\ UNCHANGED <<probe, sd, outside, obs>>

TeardownNext ==
    \/ \E k \in Keys : SetupCall(k) /\ CountSetup(k) /\ used' <= MaxOps
    \/ \E w \in Workers : SetupLstat(w) /\ UNCHANGED ghosts
    \/ \E w \in Workers : SetupUnlink(w) /\ UNCHANGED ghosts
    \/ \E w \in Workers : SetupLaunch(w) /\ UNCHANGED ghosts
    \/ \E w \in Workers : SetupLaunchFail(w) /\ UNCHANGED ghosts
    \/ \E w \in Workers : SetupInitOk(w) /\ UNCHANGED ghosts
    \/ \E w \in Workers : SetupInitFail(w) /\ UNCHANGED ghosts
    \/ \E k \in Keys : DestroyBegin(k) /\ CountTd(k) /\ used' <= MaxOps
    \/ \E k \in Keys : DeleteBegin(k) /\ CountTd(k) /\ used' <= MaxOps
    \/ \E k \in Keys : TdOrphan(k) /\ CountTd(k)
    \/ \E k \in Keys : TdUnlink(k) /\ CountTd(k)
    \/ \E k \in Keys : TdStopClean(k) /\ CountTd(k)
    \/ \E k \in Keys : TdStopFail(k) /\ CountTd(k)
    \/ \E k \in Keys : TdPollTick(k) /\ CountTd(k)
    \/ \E k \in Keys : TdFinish(k) /\ CountTd(k)
    \/ \E k \in Keys : TdRmdir(k) /\ CountTd(k)

SpecTeardown == Init /\ [][TeardownNext]_vars

\* ------------------------------------------------------------------------
\* the same operations when a work directory found at the start may be a
\* symbolic link that leaves the sessions folder
TraversalInit == InitInside /\ outside \in SUBSET dir

SpecTraversal == TraversalInit /\ [][TeardownNext]_vars

\* ------------------------------------------------------------------------
\* setup, teardown and crash recovery of the started keys on their own
RecoveryNext ==
    \/ \E k \in StartKeys : SetupCall(k) /\ Within(MaxRecoveryOps)
    \/ \E w \in Workers : SetupLstat(w) /\ UNCHANGED ghosts
    \/ \E w \in Workers : SetupUnlink(w) /\ UNCHANGED ghosts
    \/ \E w \in Workers : SetupLaunch(w) /\ UNCHANGED ghosts
    \/ \E w \in Workers : SetupLaunchFail(w) /\ UNCHANGED ghosts
    \/ \E w \in Workers : SetupInitOk(w) /\ UNCHANGED ghosts
    \/ \E w \in Workers : SetupInitFail(w) /\ UNCHANGED ghosts
    \/ \E w \in Workers : Ready(w) /\ UNCHANGED ghosts
    \/ \E w \in Workers : WorkerExit(w) /\ UNCHANGED ghosts
    \/ \E k \in StartKeys : DestroyBegin(k) /\ Within(MaxRecoveryOps)
    \/ \E k \in StartKeys : DeleteBegin(k) /\ Within(MaxRecoveryOps)
    \/ \E k \in Keys : TdOrphan(k) /\ UNCHANGED ghosts
    \/ \E k \in Keys : TdUnlink(k) /\ UNCHANGED ghosts
    \/ \E k \in Keys : TdStopClean(k) /\ UNCHANGED ghosts
    \/ \E k \in Keys : TdStopFail(k) /\ UNCHANGED ghosts
    \/ \E k \in Keys : TdPollTick(k) /\ UNCHANGED ghosts
    \/ \E k \in Keys : TdFinish(k) /\ UNCHANGED ghosts
    \/ \E k \in Keys : TdRmdir(k) /\ UNCHANGED ghosts
    \/ \E w \in Workers, e \in Events : CrashEvent(w, e) /\ Within(MaxRecoveryOps)
    \/ \E w \in Workers, e \in Events : RecAcquire(w, e) /\ UNCHANGED ghosts
    \/ \E w \in Workers, e \in Events : RecKill(w, e) /\ UNCHANGED ghosts
    \/ \E w \in Workers, e \in Events : RecSetup(w, e) /\ UNCHANGED ghosts

SpecRecovery == Init /\ [][RecoveryNext]_vars

\* ------------------------------------------------------------------------
\* The operations that take the lock of a key (reloadSession,
\* destroySession, safeRestartSession) with the setups they need, the
\* callers that find the lock set noted in the order of their calls
TdWaiter == [op |-> "td", w |-> 0, ev |-> "none"]
RlHolder == [op |-> "rl", w |-> 0, ev |-> "none"]
RecWaiter(w, e) == [op |-> "rec", w |-> w, ev |-> e]

Arrive(k, who) ==
    /\ stat' = [stat EXCEPT ![k].waiters = Append(@, who)]
    /\ UNCHANGED <<probe, sd, outside, obs>>

Leave(k, who) ==
    /\ stat' = [stat EXCEPT ![k].waiters = SelectSeq(@, LAMBDA x : x # who)]
    /\ UNCHANGED <<probe, sd, outside, obs>>

\* what the observers note of a page event
NoteCrash(w, e) ==
    LET k == wk[w].key IN
    /\ stat' = [stat EXCEPT
                  ![k].waiters = IF rec'[w][e] = "acq"
                                 THEN Append(@, RecWaiter(w, e)) ELSE @,
                  ![k].denied = ~canRestart(restartAttempts, k, Millis(now)).ok]
    /\ UNCHANGED <<probe, sd, outside, obs>>

NoteRequest(k) ==
    /\ stat' = [stat EXCEPT ![k].denied = FALSE]
    /\ UNCHANGED <<probe, sd, outside, obs>>

LockNext ==
    \/ \E k \in StartKeys :
          SetupCall(k) /\ NoteRequest(k) /\ used' <= MaxRecoveryOps
    \/ \E w \in Workers : SetupLstat(w) /\ UNCHANGED ghosts
    \/ \E w \in Workers : SetupUnlink(w) /\ UNCHANGED ghosts
    \/ \E w \in Workers : SetupLaunch(w) /\ UNCHANGED ghosts
    \/ \E w \in Workers : SetupLaunchFail(w) /\ UNCHANGED ghosts
    \/ \E w \in Workers : SetupInitOk(w) /\ UNCHANGED ghosts
    \/ \E w \in Workers : SetupInitFail(w) /\ UNCHANGED ghosts
    \/ \E k \in StartKeys : DestroyBegin(k) /\ Within(MaxRecoveryOps)
    \/ \E k \in StartKeys : DestroyWait(k) /\ Arrive(k, TdWaiter) /\ used' <= MaxRecoveryOps
    \/ \E k \in StartKeys : TdAcquire(k) /\ Leave(k, TdWaiter)
    \/ \E k \in Keys : TdOrphan(k) /\ UNCHANGED ghosts
    \/ \E k \in Keys : TdUnlink(k) /\ UNCHANGED ghosts
    \/ \E k \in Keys : TdStopClean(k) /\ UNCHANGED ghosts
    \/ \E k \in Keys : TdStopFail(k) /\ UNCHANGED ghosts
    \/ \E k \in Keys : TdPollTick(k) /\ UNCHANGED ghosts
    \/ \E k \in Keys : TdFinish(k) /\ UNCHANGED ghosts
    \/ \E k \in Keys : ReloadBegin(k) /\ Within(MaxRecoveryOps)
    \/ \E k \in Keys : ReloadClosed(k) /\ UNCHANGED ghosts
    \/ \E k \in Keys : ReloadCloseTimeout(k) /\ UNCHANGED ghosts
    \/ \E k \in Keys : ReloadCloseThrows(k) /\ UNCHANGED ghosts
    \/ \E w \in Workers, e \in Events :
          CrashEvent(w, e) /\ NoteCrash(w, e) /\ used' <= MaxRecoveryOps
    \/ \E w \in Workers, e \in Events :
          RecAcquire(w, e) /\ Leave(wk[w].key, RecWaiter(w, e))
    \/ \E w \in Workers, e \in Events : RecKill(w, e) /\ UNCHANGED ghosts
    \/ \E w \in Workers, e \in Events : RecSetup(w, e) /\ UNCHANGED ghosts

SpecLock == Init /\ [][LockNext]_vars

\* ------------------------------------------------------------------------
\* The same operations under fair scheduling: every timer and every
\* awaited call of an operation in flight comes back, requests and page
\* events may or may not arrive.

\* with every client of the model in use the setupSession of a reload or
\* of a recovery is taken to fail at its launch and to return at once
\* (299-304, 309-311); the caller's finally releases the lock (634, 341)
ReloadSetupRefused(k) ==
    /\ rl[k].pc = "close"
    /\ ~HasFree
    /\ \E wkv \in {wk, KillProc(wk, rl[k].w)} : wk' = wkv
    /\ sessions' = MapDelete(sessions, k)
    /\ pendingSessions' = pendingSessions \ {k}
    /\ rl' = [rl EXCEPT ![k] = RlIdle]
    /\ sessionLocks' = releaseSessionLock(sessionLocks, k)
    /\ UNCHANGED <<restartAttempts, now, releaseBrowserLock, disk, td, rec,
                   fl, victims, used>>

RecSetupRefused(w, e) ==
    /\ rec[w][e] = "sleep"
    /\ ~CanStart(sessions, pendingSessions, wk[w].key)
    /\ rec' = [rec EXCEPT ![w][e] = "idle"]
    /\ sessionLocks' = releaseSessionLock(sessionLocks, wk[w].key)
    /\ UNCHANGED <<sessions, pendingSessions, restartAttempts, now,
                   releaseBrowserLock, wk, disk, td, rl, fl, victims, used>>

\* what arrives from outside: requests and page events
LockRequests ==
    \/ \E k \in StartKeys :
          SetupCall(k) /\ NoteRequest(k) /\ used' <= MaxRecoveryOps
    \/ \E k \in StartKeys : DestroyBegin(k) /\ Within(MaxRecoveryOps)
    \/ \E k \in StartKeys :
          DestroyWait(k) /\ Arrive(k, TdWaiter) /\ used' <= MaxRecoveryOps
    \/ \E k \in Keys : ReloadBegin(k) /\ Within(MaxRecoveryOps)
    \/ \E w \in Workers, e \in Events :
          CrashEvent(w, e) /\ NoteCrash(w, e) /\ used' <= MaxRecoveryOps

\* what the operations in flight do next
LockSteps ==
    \/ \E w \in Workers : SetupLstat(w) /\ UNCHANGED ghosts
    \/ \E w \in Workers : SetupUnlink(w) /\ UNCHANGED ghosts
    \/ \E w \in Workers : SetupLaunch(w) /\ UNCHANGED ghosts
    \/ \E w \in Workers : SetupLaunchFail(w) /\ UNCHANGED ghosts
    \/ \E w \in Workers : SetupInitOk(w) /\ UNCHANGED ghosts
    \/ \E w \in Workers : SetupInitFail(w) /\ UNCHANGED ghosts
    \/ \E k \in StartKeys : TdAcquire(k) /\ Leave(k, TdWaiter)
    \/ \E k \in Keys : TdOrphan(k) /\ UNCHANGED ghosts
    \/ \E k \in Keys : TdUnlink(k) /\ UNCHANGED ghosts
    \/ \E k \in Keys : TdStopClean(k) /\ UNCHANGED ghosts
    \/ \E k \in Keys : TdStopFail(k) /\ UNCHANGED ghosts
    \/ \E k \in Keys : TdPollTick(k) /\ UNCHANGED ghosts
    \/ \E k \in Keys : TdFinish(k) /\ UNCHANGED ghosts
    \/ \E k \in Keys : ReloadClosed(k) /\ UNCHANGED ghosts
    \/ \E k \in Keys : ReloadCloseTimeout(k) /\ UNCHANGED ghosts
    \/ \E k \in Keys : ReloadCloseThrows(k) /\ UNCHANGED ghosts
    \/ \E k \in Keys : ReloadSetupRefused(k) /\ UNCHANGED ghosts
    \/ \E w \in Workers, e \in Events :
          RecAcquire(w, e) /\ Leave(wk[w].key, RecWaiter(w, e))
    \/ \E w \in Workers, e \in Events : RecKill(w, e) /\ UNCHANGED ghosts
    \/ \E w \in Workers, e \in Events : RecSetup(w, e) /\ UNCHANGED ghosts
    \/ \E w \in Workers, e \in Events :
          RecSetupRefused(w, e) /\ UNCHANGED ghosts

FairLockNext == LockRequests \/ LockSteps

FairSpecLock == Init /\ [][FairLockNext]_vars /\ WF_vars(LockSteps)

\* ------------------------------------------------------------------------
\* validateSession beside setupSession: clients are set up, get ready and
\* lose their Chrome while one key after the other is probed
ProbeNext ==
    \/ \E k \in Keys : SetupCall(k) /\ Within(MaxOps)
    \/ \E w \in Workers : SetupLstat(w) /\ UNCHANGED ghosts
    \/ \E w \in Workers : SetupUnlink(w) /\ UNCHANGED ghosts
    \/ \E w \in Workers : SetupLaunch(w) /\ UNCHANGED ghosts
    \/ \E w \in Workers : SetupLaunchFail(w) /\ UNCHANGED ghosts
    \/ \E w \in Workers : SetupInitOk(w) /\ UNCHANGED ghosts
    \/ \E w \in Workers : SetupInitFail(w) /\ UNCHANGED ghosts
    \/ \E w \in Workers : Ready(w) /\ UNCHANGED ghosts
    \/ \E w \in Workers : WorkerExit(w) /\ UNCHANGED ghosts
    \/ \E k \in Keys : ProbeCall(k)
    \/ ProbeClosed
    \/ \E o \in TripOutcomes : ProbeTrip(o)
    \/ \E s \in StateOutcomes : ProbeGetState(s)

SpecProbe == Init /\ [][ProbeNext]_vars

\* ------------------------------------------------------------------------
\* gracefulShutdown beside setupSession: requests accepted before the
\* signal go on until the process exits, then nothing runs
ShutdownNext ==
    \/ \E k \in Keys : sd.pc = "run" /\ SetupCall(k) /\ Within(MaxOps)
    \/ \E w \in Workers : Running /\ SetupLstat(w) /\ UNCHANGED ghosts
    \/ \E w \in Workers : Running /\ SetupUnlink(w) /\ UNCHANGED ghosts
    \/ \E w \in Workers : Running /\ SetupLaunch(w) /\ UNCHANGED ghosts
    \/ \E w \in Workers : Running /\ SetupLaunchFail(w) /\ UNCHANGED ghosts
    \/ \E w \in Workers : Running /\ SetupInitOk(w) /\ UNCHANGED ghosts
    \/ \E w \in Workers : Running /\ SetupInitFail(w) /\ UNCHANGED ghosts
    \/ \E w \in Workers : Running /\ Ready(w) /\ UNCHANGED ghosts
    \/ \E w \in Workers : Running /\ WorkerExit(w) /\ UNCHANGED ghosts
    \/ Signal
    \/ \E w \in Workers : SdDestroyOk(w)
    \/ \E w \in Workers : SdDestroyFail(w)
    \/ SdDeadline

SpecShutdown == Init /\ [][ShutdownNext]_vars

\* ------------------------------------------------------------------------
\* The whole supervisor
Next ==
    \/ \E k \in StartKeys : SetupCall(k) /\ Within(MaxOps)
    \/ \E w \in Workers : SetupLstat(w) /\ UNCHANGED ghosts
    \/ \E w \in Workers : SetupUnlink(w) /\ UNCHANGED ghosts
    \/ \E w \in Workers : SetupLaunch(w) /\ UNCHANGED ghosts
    \/ \E w \in Workers : SetupLaunchFail(w) /\ UNCHANGED ghosts
    \/ \E w \in Workers : SetupInitOk(w) /\ UNCHANGED ghosts
    \/ \E w \in Workers : SetupInitFail(w) /\ UNCHANGED ghosts
    \/ \E w \in Workers : Ready(w) /\ UNCHANGED ghosts
    \/ \E w \in Workers : WorkerExit(w) /\ UNCHANGED ghosts
    \/ \E k \in Keys : DestroyBegin(k) /\ Within(MaxOps)
    \/ \E k \in Keys : DeleteBegin(k) /\ Within(MaxOps)
    \/ \E k \in Keys : TdOrphan(k) /\ UNCHANGED ghosts
    \/ \E k \in Keys : TdUnlink(k) /\ UNCHANGED ghosts
    \/ \E k \in Keys : TdStopClean(k) /\ UNCHANGED ghosts
    \/ \E k \in Keys : TdStopFail(k) /\ UNCHANGED ghosts
    \/ \E k \in Keys : TdPollTick(k) /\ UNCHANGED ghosts
    \/ \E k \in Keys : TdFinish(k) /\ UNCHANGED ghosts
    \/ \E k \in Keys : TdRmdir(k) /\ UNCHANGED ghosts
    \/ \E k \in Keys : ReloadBegin(k) /\ Within(MaxOps)
    \/ \E k \in Keys : ReloadClosed(k) /\ UNCHANGED ghosts
    \/ \E k \in Keys : ReloadCloseTimeout(k) /\ UNCHANGED ghosts
    \/ \E k \in Keys : ReloadCloseThrows(k) /\ UNCHANGED ghosts
    \/ \E w \in Workers, e \in Events : CrashEvent(w, e) /\ Within(MaxOps)
    \/ \E w \in Workers, e \in Events : RecAcquire(w, e) /\ UNCHANGED ghosts
    \/ \E w \in Workers, e \in Events : RecKill(w, e) /\ UNCHANGED ghosts
    \/ \E w \in Workers, e \in Events : RecSetup(w, e) /\ UNCHANGED ghosts
    \/ \E only \in BOOLEAN : FlushBegin(only) /\ Within(MaxOps)
    \/ \E k \in Keys : FlushValidate(k) /\ UNCHANGED ghosts
    \/ \E k \in Keys : FlushDelete(k) /\ UNCHANGED ghosts
    \/ FlushEnd /\ UNCHANGED ghosts

Spec == Init /\ [][Next]_vars

\* ========================================================================
\* Claims on the restart policy (checked under SpecPolicy)

\* C5: for a key with no prior record, canRestart calls at t = 0, 10, 40,
\* 70, 100 and 130 s (and nothing else on that key) return allow(count 1),
\* deny (cooldown), allow(count 2), allow(count 3), deny (ceiling) and
\* allow(count back to 1).
RestartScriptFollowed ==
    \A k \in Keys :
        obs[k].script >= 1 =>
            /\ obs[k].last.ok = ScriptExpect[obs[k].script].ok
            /\ obs[k].last.count = ScriptExpect[obs[k].script].count
            /\ restartAttempts[k].count = ScriptExpect[obs[k].script].count

RestartScriptCompleted ==
    \E k \in Keys : obs[k].script = Len(ScriptTimes) /\ now = 13

\* C6: the count of every restart record stays within 1 .. 3, and between
\* two resets of a key's record (window expiry, ready, teardown) canRestart
\* allows at most 3 attempts.
RestartCeiling ==
    \A k \in Keys :
        /\ MapHas(restartAttempts, k) =>
              /\ restartAttempts[k].count >= 1
              /\ restartAttempts[k].count <= MAX_RESTART_ATTEMPTS
        /\ obs[k].allows <= MAX_RESTART_ATTEMPTS

RestartCeilingHit ==
    \E k \in Keys :
        /\ MapHas(restartAttempts, k)
        /\ restartAttempts[k].count = MAX_RESTART_ATTEMPTS
        /\ obs[k].allows = MAX_RESTART_ATTEMPTS
        /\ obs[k].last.made /\ ~obs[k].last.ok
        /\ Millis(now) - restartAttempts[k].lastAttempt >= RESTART_COOLDOWN_MS

\* the step is a canRestart call on k that was allowed: it left a new or a
\* changed record
AllowedCall(k) ==
    /\ MapHas(restartAttempts', k)
    /\ \/ ~MapHas(restartAttempts, k)
       \/ restartAttempts'[k] # restartAttempts[k]

\* C7: two consecutive allowed canRestart calls on a key, with no clearing
\* of its record in between, are at least 30 seconds apart.
CooldownBetweenAllowed ==
    [][\A k \in Keys :
          (AllowedCall(k) /\ obs[k].lastAllow >= 0) =>
              Millis(now) - Millis(obs[k].lastAllow) >= RESTART_COOLDOWN_MS]_vars

\* C8: a ready signal deletes the key's restart record, and the first
\* crash after it is allowed and leaves a fresh record with count 1.
ReadyForgivesHistory ==
    \A k \in Keys :
        /\ obs[k].cleared => ~MapHas(restartAttempts, k)
        /\ obs[k].last.fresh =>
              /\ obs[k].last.ok
              /\ obs[k].last.count = 1

CrashAfterReady ==
    \E k \in Keys :
        /\ obs[k].last.fresh
        /\ MapHas(restartAttempts, k)
        /\ restartAttempts[k].firstAttempt = Millis(13)
        /\ restartAttempts[k].count = 1

\* ========================================================================
\* Claims on setupSession (checked under SpecSetup)

\* the clients made for key k, and those whose Chrome was started
ClientsOf(k) == {w \in Workers : wk[w].st # "free" /\ wk[w].key = k}
LaunchedFor(k) == {w \in ClientsOf(k) : wk[w].st \in {"alive", "dead"}}
LiveFor(k) == {w \in ClientsOf(k) : wk[w].st = "alive"}
SetupInFlight(k) == \E w \in ClientsOf(k) : wk[w].spc \in InFlight

\* C1: of the setupSession calls made for a key that was ABSENT, as long
\* as no setup of the key failed, exactly one makes a client and launches,
\* every other call is answered "already exists" or "initialization
\* already in progress" and launches nothing, and when the one setup has
\* returned the key is ACTIVE with that one live worker.
SetupLaunchesOnce ==
    \A k \in Keys :
        (stat[k].calls >= 1 /\ stat[k].fails = 0) =>
            /\ Cardinality(ClientsOf(k)) = 1
            /\ Cardinality(LaunchedFor(k)) <= 1
            /\ stat[k].exists + stat[k].busy = stat[k].calls - 1
            /\ SetupInFlight(k) =>
                  /\ k \in pendingSessions
                  /\ ~MapHas(sessions, k)
                  /\ stat[k].exists = 0
            /\ ~SetupInFlight(k) =>
                  /\ MapHas(sessions, k)
                  /\ k \notin pendingSessions
                  /\ LiveFor(k) = {sessions[k]}

\* all the calls of a key were made before the first one returned, and it
\* has returned
SetupRaceSettled ==
    \E k \in Keys :
        /\ stat[k].calls = MaxCalls
        /\ stat[k].busy = MaxCalls - 1
        /\ stat[k].fails = 0
        /\ MapHas(sessions, k)

\* ========================================================================
\* Claims on the whole supervisor (checked under Spec)

\* C2: at no instant is there more than one live worker process launched
\* for the same key.
OneLiveWorkerPerKey ==
    \A k \in Keys : Cardinality(LiveFor(k)) <= 1

\* C3: the lock-file reaper (orphan path of a teardown, of a flush or
\* not) working on the lock of an unregistered key never kills a process
\* that is the worker of the ACTIVE or PENDING registry entry of another
\* key.
ReaperSparesOwnedPids ==
    \A v \in victims : v.owner = v.key

\* C9: a flush restricted to inactive sessions does not touch a key whose
\* probe reports connected, and removing the lock of a directory without
\* registry entry never kills the worker of another key that is ACTIVE.
FlushInactiveByMembership ==
    /\ (fl.only /\ fl.pc \in {"del", "wait"}) => fl.val # "ok"
    /\ \A v \in victims :
          ~(v.by = "flushInactive" /\ v.active /\ v.owner # v.key)

\* ========================================================================
\* Claims on teardown and recovery (checked under SpecRecovery)

\* the step belongs to the safeRestartSession of client w: a page event
\* consumed its once-listener, or the recovery moved on
RecoveryStep(w) ==
    \/ wk'[w].lis # wk[w].lis /\ wk'[w].lis \subseteq wk[w].lis /\ td' = td
    \/ rec'[w] # rec[w]

\* C4: while a teardown of a key is inside its critical section, no step
\* of a crash recovery of that key changes the registry or kills a
\* process, the denied recovery included.
TeardownExcludesRecovery ==
    [][\A w \in Workers :
          (wk[w].st # "free" /\ td[wk[w].key].pc # "idle" /\ RecoveryStep(w)) =>
              /\ sessions' = sessions
              /\ pendingSessions' = pendingSessions
              /\ \A v \in Workers : wk'[v].st = wk[v].st]_vars

\* ========================================================================
\* Claims on teardown (checked under SpecTeardown)

\* the step is one of a teardown of k that has met the key ABSENT since
\* it was called
StepOnAbsent(k) ==
    /\ td'[k] # td[k]
    /\ Absent(k)
    /\ td[k].pc = "idle" \/ stat[k].open

\* C10: every step of a destroySession / deleteSession called on a key
\* that is ABSENT leaves sessions, pendingSessions, restartAttempts and
\* the locks of the other keys as they are and raises no error, and its
\* last step leaves the lock of the key free as it was before the call;
\* so for a second call in a row.
TeardownOfAbsentChangesNothing ==
    [][\A k \in Keys :
          StepOnAbsent(k) =>
              /\ sessions' = sessions
              /\ pendingSessions' = pendingSessions
              /\ restartAttempts' = restartAttempts
              /\ sessionLocks' \ {k} = sessionLocks \ {k}
              /\ td'[k].res # "error"
              /\ td'[k].pc = "idle" => k \notin sessionLocks']_vars

\* two teardowns in a row ran from start to end on a key that was ABSENT
\* throughout, while another key was ACTIVE
TeardownTwiceOnAbsent ==
    \E k \in Keys, j \in Keys :
        /\ j # k
        /\ stat[k].absent = 2
        /\ td[k].pc = "idle"
        /\ MapHas(sessions, j)

\* ========================================================================
\* Claims on the lock of a key (checked under SpecLock)

\* the operations between their acquireSessionLock and their
\* releaseSessionLock of key k
LockHolders(k) ==
    {h \in {TdWaiter} : td[k].pc \notin {"idle", "wait"}}
    \cup {h \in {RlHolder} : rl[k].pc # "idle"}
    \cup {h \in {RecWaiter(w, e) : w \in Workers, e \in Events} :
             /\ wk[h.w].key = k
             /\ rec[h.w][h.ev] \in {"destroy", "sleep", "setup"}}

LockServesInArrivalOrder ==
    [][\A k \in Keys :
          Len(stat'[k].waiters) < Len(stat[k].waiters) =>
              stat'[k].waiters = Tail(stat[k].waiters)]_vars

\* ========================================================================
\* Claims on failing setups (checked under SpecSetup)

\* C13: when the launch inside setupSession fails, the Chrome that was
\* started, if any, is dead after the step, the key is neither in
\* sessions nor in pendingSessions, the failure is returned to the caller
\* (it is counted), and a setupSession of the key would be accepted.
SetupFailureCleansUp ==
    [][\A k \in Keys :
          stat'[k].fails > stat[k].fails =>
              /\ \A w \in Workers :
                    (wk[w].key = k /\ wk[w].spc \in InFlight) =>
                        wk'[w].st # "alive"
              /\ k \notin pendingSessions'
              /\ ~MapHas(sessions', k)
              /\ ~setupConflict(sessions', pendingSessions', k)]_vars

\* a setup failed after Chrome had come up, Chrome was killed, and a later
\* setupSession of the key was accepted and made it ACTIVE
SetupAcceptedAfterFailure ==
    \E k \in Keys, w \in Workers :
        /\ stat[k].fails = 1
        /\ wk[w].key = k /\ wk[w].st = "dead" /\ wk[w].spc = "done"
        /\ MapHas(sessions, k) /\ sessions[k] # w

\* ========================================================================
\* Claims on the denied recovery (checked under SpecLock)

\* the step is the page event e of client w and canRestart denies
DeniedCrash(w, e) ==
    /\ wk[w].st # "free"
    /\ e \in wk[w].lis /\ wk'[w].lis = wk[w].lis \ {e}
    /\ td' = td /\ rl' = rl
    /\ ~canRestart(restartAttempts, wk[w].key, Millis(now)).ok

\* the step makes a client for key k on behalf of a safeRestartSession
RecoveryLaunch(k) ==
    \E w \in Workers :
        /\ wk[w].st = "free"
        /\ wk'[w].key = k
        /\ wk'[w].caller.kind = "rec"

\* the denied recovery itself: the registry entry and the reservation of
\* the key are gone, the crashed Chrome is not alive, no client is made
DeniedRecoveryStops ==
    [][\A w \in Workers, e \in Events :
          DeniedCrash(w, e) =>
              /\ ~MapHas(sessions', wk[w].key)
              /\ wk[w].key \notin pendingSessions'
              /\ wk'[w].st # "alive"
              /\ \A v \in Workers : wk[v].st = "free" => wk'[v].st = "free"]_vars

\* C14: a denied recovery removes the registry entry of the key, kills
\* the crashed worker and launches nothing, and from then on no recovery
\* launches a worker for the key until canRestart allows again or a
\* setupSession is requested from outside.
DeniedRecoveryIsFinal ==
    /\ DeniedRecoveryStops
    /\ [][\A k \in Keys : stat[k].denied => ~RecoveryLaunch(k)]_vars

\* ========================================================================
\* Claim on validateSession (checked under SpecProbe)

\* C15: a probe of a registered client whose page is open answers
\* session_connected only if the round-trip of this call was answered and
\* getState gave CONNECTED; a round-trip that timed out is tried again (3
\* timeouts in a row end the probe as not connected), so the state is
\* asked for only after an answer
ProbeConnectedAfterAnswer ==
    /\ probe.pc = "state" =>
          probe.trips[Len(probe.trips)] = "answer"
    /\ probe.res = "session_connected" =>
          /\ probe.trips # << >>
          /\ probe.trips[Len(probe.trips)] = "answer"
          /\ probe.state = "CONNECTED"

\* ========================================================================
\* Claim on gracefulShutdown (checked under SpecShutdown)

\* C16: a second signal starts no second shutdown, and when the process
\* has exited every client the registry holds whose Chrome still runs has
\* had its destroy completed or has been sent SIGKILL
ShutdownCoversRegistry ==
    /\ sd.starts <= 1
    /\ sd.pc = "exited" =>
          \A w \in Registered :
              wk[w].st = "alive" => w \in sd.done \cup sd.killed

\* ========================================================================
\* Claims on the reservation of a key (checked under SpecTeardown and Spec)

\* C17: a step that removes key k from pendingSessions ends every
\* setupSession of k that was in flight: the reservation is not removed
\* while the setup that made it is still launching
ReservationRemovedByOwner ==
    [][\A k \in Keys :
          k \in pendingSessions /\ k \notin pendingSessions' =>
              \A w \in ClientsOf(k) :
                  wk[w].spc \in InFlight => wk'[w].spc \notin InFlight]_vars

\* C18: killOrphanedBrowserByLockFile called for key k by a teardown or a
\* flush never kills the Chrome of the client the registry holds for k,
\* PENDING or ACTIVE, and never unlinks the lock of a Chrome that a setup
\* of k in flight has started
OrphanPathSparesLaunch ==
    /\ [](\A v \in victims : v.owner # v.key)
    /\ [][\A k \in Keys :
            lockArt[k] # 0 /\ lockArt'[k] = 0 /\ td[k].pc = "unlink" =>
                ~\E w \in ClientsOf(k) :
                     wk[w].spc \in InFlight /\ wk[w].st # "new"]_vars

\* C19: no key is in pendingSessions and in sessions at once, whatever
\* setups, teardowns, reloads, recoveries and flushes interleave
RegistryDisjoint ==
    \A k \in Keys : ~(MapHas(sessions, k) /\ k \in pendingSessions)

\* a key is ACTIVE while an older setupSession of it is still launching
ActiveBesideLaunch ==
    \E k \in Keys :
        /\ MapHas(sessions, k)
        /\ \E w \in ClientsOf(k) :
               wk[w].spc \in InFlight /\ sessions[k] # w

\* ========================================================================
\* Claim on the owner of a running Chrome (checked under SpecLock)

\* an operation in flight has client w in hand and will stop its Chrome
Terminating(w) ==
    \/ \E k \in Keys : td[k].pc # "idle" /\ td[k].w = w
    \/ \E k \in Keys : rl[k].pc # "idle" /\ rl[k].w = w
    \/ \E e \in Events : rec[w][e] # "idle"

\* a step of safeRestartSession made for client w
RecoveryOf(w) ==
    \E e \in Events : CrashEvent(w, e) \/ RecAcquire(w, e) \/ RecKill(w, e)

\* every client whose Chrome runs is the registry entry of its key, or has
\* its setupSession in flight, or is in the hands of an operation that
\* stops it
LiveWorkerHasOwner ==
    \A w \in Workers :
        wk[w].st = "alive" =>
            Active(w) \/ wk[w].spc \in InFlight \/ Terminating(w)

\* C20: a step of the recovery made for a client that is no longer the
\* registry entry of its key leaves the entry of the newer client as it
\* is, so that the newer client, if its Chrome runs, keeps its owner
StaleCrashSparesNewer ==
    [][\A w \in Workers :
          /\ RecoveryOf(w)
          /\ MapHas(sessions, wk[w].key)
          /\ sessions[wk[w].key] # w
          => /\ MapHas(sessions', wk[w].key)
             /\ sessions'[wk[w].key] = sessions[wk[w].key]]_vars

\* ========================================================================
\* Claims on what starts and what follows a recovery (SpecLock, SpecRecovery)

\* the page event e of client w starts a recovery: safeRestartSession
\* passes canRestart and goes for the lock (330)
RecoveryStarts(w, e) ==
    CrashEvent(w, e) /\ rec'[w][e] \in {"acq", "destroy"}

\* C21: a recovery is started only by a page event of the client that is
\* the registry entry of its key, not by one of a client whose setup is
\* in flight or has failed, nor of one whose key was torn down
RecoveryOnlyForActive ==
    [][\A w \in Workers, e \in Events : RecoveryStarts(w, e) => Active(w)]_vars

\* a teardown or a reload has client w in hand and stops its Chrome
BeingStopped(w) ==
    \/ \E k \in Keys : td[k].pc \in {"stop", "poll"} /\ td[k].w = w
    \/ \E k \in Keys : rl[k].pc = "close" /\ rl[k].w = w

TeardownClearsRestartRecord ==
    [][\A k \in Keys :
          td[k].pc \notin {"idle", "wait"} /\ td'[k].pc = "idle" =>
              ~MapHas(restartAttempts', k)]_vars

\* ========================================================================
\* Claims on the order of a recovery and of a reload (checked under SpecLock)

\* the moves of safeRestartSession (330-341): wait for the lock or take
\* it, destroy, kill, sleep, setupSession, release
RecMoves ==
    {<<"idle", "acq">>, <<"idle", "destroy">>, <<"acq", "destroy">>,
     <<"destroy", "sleep">>, <<"sleep", "setup">>, <<"sleep", "idle">>,
     <<"setup", "idle">>}

\* the setupSession called by the recovery of client w for event e is
\* still in flight
RecSetupInFlight(w, e) ==
    \E v \in Workers :
        wk[v].caller = RecCaller(w, e) /\ wk[v].spc \in InFlight

\* C25: an allowed recovery holds the lock of its key from the removal
\* of the registry entry until its setupSession has returned, goes
\* through its steps in the order of the code, has sent the kill to the
\* old Chrome before it calls setupSession, and releases the lock in the
\* step in which that setupSession returns
RecoveryOrdered ==
    /\ [](\A w \in Workers, e \in Events :
            rec[w][e] \in {"destroy", "sleep", "setup"} =>
                wk[w].key \in sessionLocks)
    /\ [](\A w \in Workers, e \in Events :
            rec[w][e] \in {"sleep", "setup"} => wk[w].st # "alive")
    /\ [](\A w \in Workers, e \in Events :
            RecSetupInFlight(w, e) => rec[w][e] = "setup")
    /\ [][\A w \in Workers, e \in Events :
            /\ rec'[w][e] # rec[w][e] =>
                  <<rec[w][e], rec'[w][e]>> \in RecMoves
            /\ rec[w][e] # "destroy" /\ rec'[w][e] = "destroy" =>
                  /\ ~MapHas(sessions', wk[w].key)
                  /\ wk[w].key \notin sessionLocks
            /\ rec[w][e] \in {"sleep", "setup"} /\ rec'[w][e] = "idle" =>
                  wk[w].key \notin sessionLocks']_vars

\* the recovery of a client has killed it and its setupSession has
\* started a new Chrome, the lock still held
RecoveryRelaunched ==
    \E w \in Workers, e \in Events, v \in Workers :
        /\ rec[w][e] = "setup"
        /\ wk[v].caller = RecCaller(w, e)
        /\ wk[v].st = "alive"
        /\ wk[w].st = "dead"

\* C26: when reloadSession goes on to setupSession the Chrome of the old
\* client is not running: it has closed, or it was killed because the
\* close failed or did not finish within 5 seconds
ReloadStopsOldWorker ==
    [][\A k \in Keys :
          rl[k].pc = "close" /\ rl'[k].pc # "close" =>
              wk'[rl[k].w].st # "alive"]_vars

\* ========================================================================
\* Claim on the lock removal of setupSession (checked under SpecSetup)

\* C27: the SingletonLock that setupSession unlinks does not name a
\* process that is alive, and Chrome is not started for a key while a
\* process left on its work directory is alive
SetupRemovesOnlyStaleLock ==
    /\ [][\A w \in Workers :
            wk[w].spc = "unlink" /\ wk'[w].spc = "launch" =>
                ~(lockArt[wk[w].key] > 0 /\ Alive(lockArt[wk[w].key]))]_vars
    /\ [][\A w \in Workers :
            wk[w].spc = "launch" /\ wk'[w].st = "alive" =>
                OrphanPid(wk[w].key) \notin orphans]_vars

\* ========================================================================
\* Claim on the release of the lock (checked under FairSpecLock)

\* an operation holds the lock of key k
LockHeldBy(k) ==
    \/ td[k].pc \notin {"idle", "wait"}
    \/ rl[k].pc # "idle"
    \/ \E w \in Workers, e \in Events :
          wk[w].key = k /\ rec[w][e] \in {"destroy", "sleep", "setup"}

\* an operation polls for the lock of key k
LockAwaited(k) ==
    \/ td[k].pc = "wait"
    \/ \E w \in Workers, e \in Events : wk[w].key = k /\ rec[w][e] = "acq"

DenialLeavesRecords ==
    [][\A k \in Keys :
          PolicyCrash(k) /\ ~canRestart(restartAttempts, k, Millis(now)).ok
          => restartAttempts' = restartAttempts]_vars

\* the latest call for a key was denied at the ceiling while another key
\* has a record of its own
DeniedAtCeiling ==
    \E k \in Keys, j \in Keys :
        /\ j # k
        /\ obs[k].last.made /\ ~obs[k].last.ok
        /\ MapHas(restartAttempts, k)
        /\ restartAttempts[k].count = MAX_RESTART_ATTEMPTS
        /\ MapHas(restartAttempts, j)

\* ========================================================================
\* Claim on killOrphanedBrowserByLockFile (checked under SpecTeardown)

\* the step of the reaper for key k that reads the lock, and its unlink
ReaperReads(k) == td[k].pc = "orphan" /\ td'[k].pc # "orphan"
ReaperUnlinks(k) == td[k].pc = "unlink" /\ td'[k].pc # "unlink"
NoSignal == wk' = wk /\ orphans' = orphans

\* C30: without a lock the reaper changes nothing on disk and signals
\* nothing; with a lock that holds no pid, or the pid of no live process,
\* it signals nothing and goes on to remove the lock; the removal signals
\* nothing either
ReaperHandlesStaleLock ==
    [][\A k \in Keys :
          /\ ReaperReads(k) /\ lockArt[k] = 0 =>
                NoSignal /\ UNCHANGED disk /\ td'[k].pc # "unlink"
          /\ ReaperReads(k) /\ lockArt[k] = -1 =>
                NoSignal /\ td'[k].pc = "unlink"
          /\ ReaperReads(k) /\ lockArt[k] > 0 /\ ~Alive(lockArt[k]) =>
                NoSignal /\ td'[k].pc = "unlink"
          /\ ReaperUnlinks(k) => NoSignal /\ lockArt'[k] = 0]_vars

\* the reaper has read a lock with the pid of a process that does not
\* exist and is about to remove it
ReaperFoundDeadPid ==
    \E k \in Keys :
        /\ td[k].pc = "unlink"
        /\ lockArt[k] = 1
        /\ wk[1].st = "free"

\* ========================================================================
\* Claim on the path check of a delete (checked under SpecTraversal)

\* C31: no step of a deleteSession of a key whose work directory resolves
\* outside the sessions folder removes the directory or its SingletonLock
DeleteRejectsTraversal ==
    [][\A k \in Keys :
          /\ k \in outside
          /\ td[k].kind = "delete" /\ td[k].pc # "idle"
          /\ td'[k] # td[k]
          => /\ lockArt'[k] = lockArt[k]
             /\ k \in dir => k \in dir']_vars

====
